---- MODULE Spec2Model ----
(***************************************************************************)
(* The tutoring-session lifecycle of pratinidhi-ai-backend:                *)
(*   routes/tutor_routing.py   start_session, session_message, end_session *)
(*   helper/redis_sessions.py  RedisSessionManager (the live store)        *)
(*   database/session_db.py    save_session_summary (the durable archive)  *)
(*   helper/firebase.py        userStartSession (the quota gate)           *)
(* Every request handler is cut at its blocking calls (store read, model   *)
(* completion, summary generation, archive write, store write/delete), so  *)
(* that requests served concurrently interleave exactly at those calls.    *)
(* The weekly tasks of the same backend are modelled beside it:            *)
(*   helper/task_assignment.py assign_weekly_tasks, should_assign_new_tasks*)
(*   models/task_schema.py     Task.add_attempt                            *)
(***************************************************************************)
EXTENDS Integers, Sequences, FiniteSets, TLC

(* ------------------------------ bounds -------------------------------- *)
\* request handlers that may be in flight at the same time
NumSlots == 2
\* requests accepted over one run
MaxRequests == 3
\* the last day a date can fall on (day 0 is a Monday): three weeks
MaxDay == 20
\* calls of Task.add_attempt on one task
MaxAttempts == 3

(* -------------------------- program constants ------------------------- *)
\* tutor_routing.py:126   if session.length >= 100
MAX_LENGTH == 100
\* tutor_routing.py:109   session.messages[-20:]
WINDOW == 20
\* tutor_routing.py:124   session.length += 2
EXCHANGE_STEP == 2
\* task_assignment.py:164  replace(hour=23, minute=59, second=59), in seconds
END_OF_DAY == 86399
\* task_assignment.py:26   Sunday is weekday 6
SUNDAY == 6

(* ------------------------------ domains ------------------------------- *)
Slots == 1..NumSlots
\* the values uuid4 produces, in the order it produces them
SessionIdOrder == <<"s1", "s2">>
SessionIds == {SessionIdOrder[i] : i \in 1..Len(SessionIdOrder)}
UserIds == {"u1"}
\* user_id values of a start request: "" is a missing user_id, "u9" has no user record
UserInputs == {"", "u1", "u9"}
\* message texts of a sendMessage request: "" is a missing/empty message
Texts == {"", "hi"}
Replies == {"re"}
Summaries == {"sum"}
FaultKinds == {"store", "llm", "summary", "archive", "users"}

\* Python's None and a present value
None == <<>>
Some(x) == <<x>>
IsNone(o) == o = <<>>
Get(o) == o[1]

VARIABLES
    store,      \* Redis: session_id -> pickled TutorSession (keys present only)
    archive,    \* Firestore session_summary/<user_id>/sessions/<session_id>
    users,      \* Firestore users/<user_id>: the quota record
    pending,    \* user records handed to _update_user_async threads not yet written
    req,        \* per slot: the handler in flight and its local variables
    issued,     \* session ids uuid4 has produced so far
    terminated, \* history: sessions a termination has deleted from the store
    nreq,       \* requests accepted so far
    faults,     \* failure kinds the environment may produce in this run
    summarized, \* history: per session id, the calls of generate_summary so far
    last,       \* the outcome of the step just taken (a response, or Quiet)
    current_week_start, \* user.current_week_start of the user tasks are assigned to
    tasks,      \* the list the last call of assign_weekly_tasks returned
    assigned_on,\* history: the current_date of that call
    attempts_info, \* task.attempts_info of one task
    attempt_log \* history: the scores passed to add_attempt on that task, in order

\* the variables of the weekly tasks
taskVars == <<current_week_start, tasks, assigned_on, attempts_info, attempt_log>>

\* the variables of the tutoring sessions
sessionVars == <<store, archive, users, pending, req, issued, terminated, nreq, faults,
                 summarized, last>>

vars == <<sessionVars, taskVars>>

(* ----------------------- models/tutor_session_schema.py ---------------- *)
\* TutorSession.__init__: the attributes in the order __init__ assigns them
SessionFields ==
    <<"user_id", "personality", "language", "session_id", "context",
      "session_system_prompt", "messages", "length", "is_active",
      "created_at", "summary", "ended_at">>

\* (mutant) the constructor stamps ended_at as it stamps created_at
TutorSession_Stamped(user_id, personality, language, session_id, context, prompt, t) ==
    [user_id |-> user_id, personality |-> personality, language |-> language,
     session_id |-> session_id, context |-> context, session_system_prompt |-> prompt,
     messages |-> <<>>, length |-> 0, is_active |-> TRUE, created_at |-> t,
     summary |-> None, ended_at |-> Some(t)]

\* `context` stands for subject, level, exam, interests, goals and the lecture_*
\* attributes: stored at construction, never read by the lifecycle code
TutorSession(user_id, personality, language, session_id, context, prompt, t) ==
    [user_id |-> user_id,
     personality |-> personality,
     language |-> language,
     session_id |-> session_id,
     context |-> context,
     session_system_prompt |-> prompt,
     messages |-> <<>>,
     length |-> 0,
     is_active |-> TRUE,
     created_at |-> t,
     summary |-> None,
     ended_at |-> None]

\* TutorSession.to_dict
to_dict(session) == [f \in DOMAIN session |-> session[f]]

(* --------------------------- helper/prompt_builder.py ------------------ *)
\* PromptBuilder.build_system_prompt: a text determined by its arguments
build_system_prompt(personality, context) == <<"prompt", personality, context>>

(* --------------------------- helper/redis_sessions.py ------------------ *)
\* pickle.dumps of a TutorSession: the values of its attributes, in order
pickle_dumps(session) == [i \in 1..Len(SessionFields) |-> session[SessionFields[i]]]

\* (mutant) loading runs the constructor's defaults for the closing fields
pickle_loads_ResetsClosing(p) ==
    [f \in {SessionFields[i] : i \in 1..Len(SessionFields)} |->
        IF f \in {"summary", "ended_at"} THEN None
        ELSE p[CHOOSE i \in 1..Len(SessionFields) : SessionFields[i] = f]]

\* pickle.loads: the object rebuilt from the pickled attribute values
pickle_loads(p) ==
    [f \in {SessionFields[i] : i \in 1..Len(SessionFields)} |->
        p[CHOOSE i \in 1..Len(SessionFields) : SessionFields[i] = f]]

\* redis SET key value EX 86400
redis_set(st, key, value) == (key :> value) @@ st

\* redis DEL key (an absent key is not an error)
redis_delete(st, key) == [k \in DOMAIN st \ {key} |-> st[k]]

\* (mutant) a save over a stored session adds its exchange to the stored length
\* (attribute 8 of the pickle) instead of replacing the whole entry
save_session_Merging(st, session_id, session, ok) ==
    [store |-> IF ~ok THEN st
               ELSE IF session_id \in DOMAIN st /\ session.length > 0
               THEN redis_set(st, session_id,
                              pickle_dumps([session EXCEPT
                                              !.length = st[session_id][8] + EXCHANGE_STEP]))
               ELSE redis_set(st, session_id, pickle_dumps(session)),
     ret |-> ok]

\* (mutant) a failed SET leaves the key without a value
save_session_TornWrite(st, session_id, session, ok) ==
    [store |-> IF ok THEN redis_set(st, session_id, pickle_dumps(session))
               ELSE redis_delete(st, session_id),
     ret |-> ok]

\* RedisSessionManager.save_session; ok = FALSE: the ping or the SET failed
save_session(st, session_id, session, ok) ==
    [store |-> IF ok THEN redis_set(st, session_id, pickle_dumps(session)) ELSE st,
     ret |-> ok]

\* (mutant) a key that is not in the store yields a new session object
get_session_Default(st, session_id, ok) ==
    IF ~ok THEN None
    ELSE IF session_id \notin DOMAIN st
    THEN Some(TutorSession("u1", "albert_einstein", "english", session_id, <<>>, <<>>, 0))
    ELSE Some(pickle_loads(st[session_id]))

\* RedisSessionManager.get_session; ok = FALSE: the ping or the GET failed
get_session(st, session_id, ok) ==
    IF ~ok THEN None
    ELSE IF session_id \notin DOMAIN st THEN None
    ELSE Some(pickle_loads(st[session_id]))

\* (mutant) deleting a key that is not there counts as a failure
delete_session_MissingFails(st, session_id, ok) ==
    [store |-> IF ok THEN redis_delete(st, session_id) ELSE st,
     ret |-> ok /\ session_id \in DOMAIN st]

\* RedisSessionManager.delete_session; ok = FALSE: the DEL raised
delete_session(st, session_id, ok) ==
    [store |-> IF ok THEN redis_delete(st, session_id) ELSE st,
     ret |-> ok]

(* --------------------------- database/session_db.py -------------------- *)
\* (mutant) the whole to_dict() is written, the message list included
summary_data_WithMessages(session) == to_dict(session)

\* SessionDatabase.save_session_summary: to_dict() without 'messages', written
\* under session_summary/<user_id>/sessions/<session_id>
summary_data(session) ==
    LET d == to_dict(session) IN [f \in DOMAIN d \ {"messages"} |-> d[f]]

saveSessionSummary(arch, session, ok) ==
    [archive |-> IF ok
                 THEN (<<session.user_id, session.session_id>> :> summary_data(session)) @@ arch
                 ELSE arch,
     ret |-> ok]

(* --------------------------- routes/tutor_routing.py ------------------- *)
\* seq[-n:]
LastN(seq, n) == IF Len(seq) <= n THEN seq ELSE SubSeq(seq, Len(seq) - n + 1, Len(seq))

\* (mutant) the window is cut before the user's message is appended
AppendUser_TrimFirst(session, text) ==
    [session EXCEPT !.messages =
        Append(LastN(@, WINDOW), [role |-> "user", content |-> text])]

\* session_message, lines 108-109
AppendUser(session, text) ==
    [session EXCEPT !.messages =
        LastN(Append(@, [role |-> "user", content |-> text]), WINDOW)]

\* (mutant) an exchange counts as one message
AppendAssistant_CountsOne(session, reply) ==
    [session EXCEPT !.messages = Append(@, [role |-> "assistant", content |-> reply]),
                    !.length = @ + 1]

\* session_message, lines 123-124
AppendAssistant(session, reply) ==
    [session EXCEPT !.messages = Append(@, [role |-> "assistant", content |-> reply]),
                    !.length = @ + EXCHANGE_STEP]

\* (mutant) the limit is reached only once the length has passed 100
LimitReached_Strict(session) == session.length > MAX_LENGTH

\* (mutant) the first exchange already counts as the limit
LimitReached_Early(session) == session.length >= EXCHANGE_STEP

\* session_message, line 126
LimitReached(session) == session.length >= MAX_LENGTH

\* (mutant) the session is marked ended without its end time
Deactivate_NoEndedAt(session, t) == [session EXCEPT !.is_active = FALSE]

\* session_message lines 127-128, end_session lines 158-159
Deactivate(session, t) == [session EXCEPT !.is_active = FALSE, !.ended_at = Some(t)]

\* session_message line 129, end_session line 160
\* (mutant) the summary is not kept in the session
SetSummary_Dropped(session, text) == session

SetSummary(session, text) == [session EXCEPT !.summary = Some(text)]

(* --------------------------- the quota gate ---------------------------- *)
\* the user's quota threshold in the users/<user_id> record
QuotaMax == 1

\* User.can_start_session: the session counter is below the allowed maximum
can_start_session(user) == user.session_count < user.max_sessions

\* User.increment_session_count
increment_session_count(user) == [user EXCEPT !.session_count = @ + 1]

\* (mutant) a lookup that raised lets the start through
userStartSession_FailsOpen(us, user_id, ok) ==
    IF ~ok THEN [ret |-> TRUE, spawn |-> None]
    ELSE IF user_id \notin DOMAIN us THEN [ret |-> FALSE, spawn |-> None]
    ELSE LET can_start == can_start_session(us[user_id]) IN
         [ret |-> can_start,
          spawn |-> IF can_start THEN Some(increment_session_count(us[user_id])) ELSE None]

\* (mutant) the result of can_start_session is not looked at
userStartSession_IgnoresGate(us, user_id, ok) ==
    IF ~ok \/ user_id \notin DOMAIN us THEN [ret |-> FALSE, spawn |-> None]
    ELSE [ret |-> TRUE, spawn |-> Some(increment_session_count(us[user_id]))]

\* helper/firebase.py userStartSession; ok = FALSE: getUserbyId raised.
\* spawn is the user object handed to the _update_user_async thread, if any
userStartSession(us, user_id, ok) ==
    IF ~ok THEN [ret |-> FALSE, spawn |-> None]
    ELSE IF user_id \notin DOMAIN us THEN [ret |-> FALSE, spawn |-> None]
    ELSE LET can_start == can_start_session(us[user_id]) IN
         [ret |-> can_start,
          spawn |-> IF can_start THEN Some(increment_session_count(us[user_id])) ELSE None]

(* --------------------------- requests and responses -------------------- *)
\* a slot with no handler running
IdleReq ==
    [op |-> "none", pc |-> "idle", sid |-> "", session |-> None,
     ai_response |-> "", writes |-> 0, arch |-> "na", use_rag |-> FALSE]

NoBody ==
    [session_id |-> "", ai_response |-> "", session_active |-> FALSE,
     message_count |-> 0, summary |-> None]

\* the step just taken returned nothing to a caller
Quiet ==
    [op |-> "none", sid |-> "", code |-> 0, kind |-> "none",
     body |-> NoBody, call |-> IdleReq, before |-> None]

\* the response a handler returns: HTTP status, which return statement, payload;
\* call is the handler's record when it returned, before the store entry of sid
\* as it was when the handler's last step began
Response(op, sid, code, kind, body, call, before) ==
    [op |-> op, sid |-> sid, code |-> code, kind |-> kind,
     body |-> body, call |-> call, before |-> before]

\* the store entry under a key, None when the key is absent
Entry(st, sid) == IF sid \in DOMAIN st THEN Some(st[sid]) ELSE None

\* time.time() (tutor_routing.py:128, 159; tutor_session_schema.py:24): the
\* session handlers only record the reading and never compare two readings, so
\* one abstract timestamp stands for all of them
Now == 1

\* str(uuid.uuid4()): the next value never produced before
FreshId(sid) ==
    \E i \in 1..Len(SessionIdOrder) :
        /\ SessionIdOrder[i] = sid
        /\ sid \notin issued
        /\ \A j \in 1..(i - 1) : SessionIdOrder[j] \in issued

\* a request is served by the first handler slot that is free
FreeSlot(r) == req[r].pc = "idle" /\ \A q \in Slots : q < r => req[q].pc # "idle"

\* the outcomes a call of the given kind can have in this run
Outcomes(kind) == IF kind \in faults THEN BOOLEAN ELSE {TRUE}

StartBodies == {None} \cup {Some([user_id |-> u]) : u \in UserInputs}
MessageBodies ==
    {None} \cup {Some([message |-> t]) : t \in Texts}
           \cup {Some([message |-> t, use_rag |-> TRUE]) : t \in Texts}

(* --------------------------- start_session ----------------------------- *)
\* tutor_routing.py start_session. The handler's calls (quota lookup, store
\* write) touch nothing another handler reads before the response, so the
\* handler is one step; the _update_user_async thread it spawns runs later.
StartSession(r, data, session_id, t, usersOk, storeOk) ==
    /\ FreeSlot(r)
    /\ nreq < MaxRequests
    /\ nreq' = nreq + 1
    /\ FreshId(session_id)
    /\ UNCHANGED <<archive, users, req, terminated, faults, taskVars, summarized>>
    /\ IF IsNone(data)
       THEN /\ last' = Response("start", "", 400, "no_json", NoBody, req[r], None)
            /\ UNCHANGED <<store, pending, issued>>
       ELSE IF Get(data).user_id = ""
       THEN /\ last' = Response("start", "", 400, "user_id_required", NoBody, req[r], None)
            /\ UNCHANGED <<store, pending, issued>>
       ELSE LET user_id == Get(data).user_id
                gate == userStartSession(users, user_id, usersOk)
            IN  IF ~gate.ret
                THEN /\ last' = Response("start", "", 403, "quota_denied", NoBody, req[r], None)
                     /\ UNCHANGED <<store, pending, issued>>
                ELSE LET personality == "albert_einstein"
                         language == "english"
                         context == <<>>
                         system_prompt == build_system_prompt(personality, context)
                         session == TutorSession(user_id, personality, language,
                                                 session_id, context, system_prompt, t)
                         saved == save_session(store, session_id, session, storeOk)
                     IN  /\ pending' = pending \cup {Get(gate.spawn)}
                         /\ issued' = issued \cup {session_id}
                         /\ store' = saved.store
                         /\ last' = Response("start", session_id, 200, "started",
                                        [NoBody EXCEPT !.session_id = session_id],
                                        [req[r] EXCEPT !.op = "start", !.sid = session_id,
                                                       !.session = Some(session),
                                                       !.writes = IF saved.ret THEN 1 ELSE 0],
                                        Entry(store, session_id))

\* helper/firebase.py _update_user_async: the thread writes the user record it
\* was given (set(..., merge=True)); a failed write is logged and dropped
UpdateUserAsync(user, ok) ==
    /\ user \in pending
    /\ pending' = pending \ {user}
    /\ users' = IF ok THEN (user.id :> user) @@ users ELSE users
    /\ last' = Quiet
    /\ UNCHANGED <<store, archive, req, issued, terminated, nreq, faults, taskVars, summarized>>

(* --------------------------- ai/ai_api.py ------------------------------ *)
\* retriever.invoke(latest_message) joined: a text determined by the message
RetrievedContext(latest_message) == "sat_book:" \o latest_message

\* call_openai_api, lines 20-40: the message list handed to the model. The
\* system prompt is a local variable: the stored one (rebuilt when it is
\* empty), with the retrieved context appended (+=) when callRag is set.
ModelRequest(session, callRag) ==
    LET stored == session.session_system_prompt
        built == IF stored = <<>>
                 THEN build_system_prompt(session.personality, session.context)
                 ELSE stored
        latest_message == IF session.messages = <<>> THEN ""
                          ELSE session.messages[Len(session.messages)].content
        system_prompt == IF callRag
                         THEN built \o <<"Relevant SAT Book Context:",
                                         RetrievedContext(latest_message)>>
                         ELSE built
    IN  <<[role |-> "system", content |-> system_prompt]>> \o session.messages

\* (mutant) the prompt that was sent to the model is kept in the session
call_openai_api_KeepsPrompt(session, callRag) ==
    [session EXCEPT !.session_system_prompt = ModelRequest(session, callRag)[1].content]

\* the session object after call_openai_api returned: the function assigns to
\* its locals only (lines 20-40)
call_openai_api(session, callRag) == session

(* --------------------------- session_message --------------------------- *)
\* line 106: data.get("use_rag", False)
use_rag(data) == IF "use_rag" \in DOMAIN data THEN data.use_rag ELSE FALSE

\* (mutant) any body with a message key is taken
MessageMissing_Never(data) == FALSE

\* lines 102-104: message = data.get("message"); if not message
MessageMissing(data) == data.message = ""

\* lines 91-109: the request arrives, the session is loaded from the store and
\* the user's message is appended to the handler's own copy
MessageLoad(r, session_id, data, storeOk) ==
    /\ FreeSlot(r)
    /\ nreq < MaxRequests
    /\ nreq' = nreq + 1
    /\ UNCHANGED <<store, archive, users, pending, issued, terminated, faults, taskVars, summarized>>
    /\ IF IsNone(data)
       THEN /\ last' = Response("message", session_id, 400, "no_json", NoBody,
                                req[r], Entry(store, session_id))
            /\ UNCHANGED req
       ELSE LET session == get_session(store, session_id, storeOk)
                notFound == IF IsNone(session) THEN TRUE ELSE ~Get(session).is_active
            IN  IF notFound
                THEN /\ last' = Response("message", session_id, 404, "not_found_or_ended",
                                         NoBody, req[r], Entry(store, session_id))
                     /\ UNCHANGED req
                ELSE IF MessageMissing(Get(data))
                THEN /\ last' = Response("message", session_id, 400, "message_required",
                                         NoBody, req[r], Entry(store, session_id))
                     /\ UNCHANGED req
                ELSE /\ req' = [req EXCEPT ![r] =
                                  [IdleReq EXCEPT !.op = "message", !.pc = "llm",
                                                  !.sid = session_id,
                                                  !.use_rag = use_rag(Get(data)),
                                                  !.session = Some(AppendUser(Get(session),
                                                                       Get(data).message))]]
                     /\ last' = Quiet

\* (mutant) the session that reached the limit is closed and then saved like
\* any other
AfterReply_SavesClosed(call, reply, t) ==
    LET session == AppendAssistant(call_openai_api(Get(call.session), call.use_rag),
                                   reply) IN
    [call EXCEPT !.session = Some(IF LimitReached(session) THEN Deactivate(session, t)
                                  ELSE session),
                 !.ai_response = reply, !.pc = "save", !.use_rag = FALSE]

\* the handler's state after the model call returned a reply (lines 123-129,
\* up to the call of generate_summary); use_rag is not read after line 113 and
\* is dropped from the record
AfterReply(call, reply, t) ==
    LET session == AppendAssistant(call_openai_api(Get(call.session), call.use_rag),
                                   reply) IN
    IF LimitReached(session)
    THEN [call EXCEPT !.session = Some(Deactivate(session, t)),
                      !.ai_response = reply, !.pc = "summary", !.use_rag = FALSE]
    ELSE [call EXCEPT !.session = Some(session), !.ai_response = reply, !.pc = "save",
                      !.use_rag = FALSE]

\* (mutant) the handler saves its copy, the user's message appended, before it
\* reports the failed model call
StoreAfterModelFailure_Saved(st, call) ==
    save_session(st, call.sid, Get(call.session), TRUE).store

\* the effect of a failed model call on the store (lines 115-121: none)
StoreAfterModelFailure(st, call) == st

\* lines 111-128: call_openai_api; llmOk = FALSE: the call raised
MessageModel(r, llmOk, reply, t) ==
    /\ req[r].op = "message"
    /\ req[r].pc = "llm"
    /\ UNCHANGED <<archive, users, pending, issued, terminated, nreq, faults, taskVars, summarized>>
    /\ IF llmOk
       THEN /\ req' = [req EXCEPT ![r] = AfterReply(req[r], reply, t)]
            /\ last' = Quiet
            /\ UNCHANGED store
       ELSE /\ store' = StoreAfterModelFailure(store, req[r])
            /\ req' = [req EXCEPT ![r] = IdleReq]
            /\ last' = Response("message", req[r].sid, 500, "openai_failed", NoBody,
                                req[r], Entry(store, req[r].sid))

\* line 129: generate_summary; sumOk = FALSE: it raised, and the handler's outer
\* except returns 500 (lines 141-143)
MessageSummary(r, sumOk, text) ==
    /\ req[r].op = "message"
    /\ req[r].pc = "summary"
    /\ summarized' = [summarized EXCEPT ![req[r].sid] = @ + 1]
    /\ UNCHANGED <<store, archive, users, pending, issued, terminated, nreq, faults, taskVars>>
    /\ IF sumOk
       THEN /\ req' = [req EXCEPT ![r].session = Some(SetSummary(Get(@), text)),
                                  ![r].pc = "archive"]
            /\ last' = Quiet
       ELSE /\ req' = [req EXCEPT ![r] = IdleReq]
            /\ last' = Response("message", req[r].sid, 500, "failed_to_process", NoBody,
                                [req[r] EXCEPT !.pc = "summary_failed"],
                                Entry(store, req[r].sid))

\* (mutant) the delete is skipped when the archive write failed
AfterArchive_OnlyIfArchived(ret) == IF ret THEN "delete" ELSE "not_archived"

\* where a termination goes after saveSessionSummary returned ret
\* (session_message lines 130-131, end_session lines 167-170)
AfterArchive(ret) == "delete"

\* line 130: saveSessionSummary, its result not looked at
MessageArchive(r, archOk) ==
    /\ req[r].op = "message"
    /\ req[r].pc = "archive"
    /\ UNCHANGED <<store, users, pending, issued, terminated, nreq, faults, taskVars, summarized>>
    /\ LET saved == saveSessionSummary(archive, Get(req[r].session), archOk) IN
       /\ archive' = saved.archive
       /\ req' = [req EXCEPT ![r].pc = AfterArchive(saved.ret),
                             ![r].arch = IF saved.ret THEN "ok" ELSE "failed",
                             ![r].writes = @ + (IF saved.ret THEN 1 ELSE 0)]
       /\ last' = Quiet

\* the payload of lines 135-139
MessagePayload(call) ==
    [NoBody EXCEPT !.ai_response = call.ai_response,
                   !.session_active = Get(call.session).is_active,
                   !.message_count = Get(call.session).length]

\* lines 131, 135-139: delete_session, its result not looked at, then the reply
MessageDelete(r, storeOk) ==
    /\ req[r].op = "message"
    /\ req[r].pc = "delete"
    /\ UNCHANGED <<archive, users, pending, issued, nreq, faults, taskVars, summarized>>
    /\ LET deleted == delete_session(store, req[r].sid, storeOk)
           call == [req[r] EXCEPT !.writes = @ + (IF deleted.ret THEN 1 ELSE 0),
                                  !.pc = IF deleted.ret THEN "deleted" ELSE "delete_failed"]
       IN  /\ store' = deleted.store
           /\ terminated' = IF deleted.ret THEN terminated \cup {req[r].sid} ELSE terminated
           /\ req' = [req EXCEPT ![r] = IdleReq]
           /\ last' = Response("message", req[r].sid, 200, "terminated",
                               MessagePayload(req[r]), call, Entry(store, req[r].sid))

\* lines 133, 135-139: save_session, its result not looked at, then the reply
MessageSave(r, storeOk) ==
    /\ req[r].op = "message"
    /\ req[r].pc = "save"
    /\ UNCHANGED <<archive, users, pending, issued, terminated, nreq, faults, taskVars, summarized>>
    /\ LET saved == save_session(store, req[r].sid, Get(req[r].session), storeOk)
           call == [req[r] EXCEPT !.writes = @ + (IF saved.ret THEN 1 ELSE 0),
                                  !.pc = IF saved.ret THEN "saved" ELSE "save_failed"]
       IN  /\ store' = saved.store
           /\ req' = [req EXCEPT ![r] = IdleReq]
           /\ last' = Response("message", req[r].sid, 200, "exchanged",
                               MessagePayload(req[r]), call, Entry(store, req[r].sid))

(* --------------------------- end_session ------------------------------- *)
\* lines 149-159: the session is loaded and marked ended in the handler's copy
EndLoad(r, session_id, t, storeOk) ==
    /\ FreeSlot(r)
    /\ nreq < MaxRequests
    /\ nreq' = nreq + 1
    /\ UNCHANGED <<store, archive, users, pending, issued, terminated, faults, taskVars, summarized>>
    /\ LET session == get_session(store, session_id, storeOk) IN
       IF IsNone(session)
       THEN /\ last' = Response("end", session_id, 404, "not_found", NoBody,
                                req[r], Entry(store, session_id))
            /\ UNCHANGED req
       ELSE IF ~Get(session).is_active
       THEN /\ last' = Response("end", session_id, 400, "already_ended", NoBody,
                                req[r], Entry(store, session_id))
            /\ UNCHANGED req
       ELSE /\ req' = [req EXCEPT ![r] =
                         [IdleReq EXCEPT !.op = "end", !.pc = "summary", !.sid = session_id,
                                         !.session = Some(Deactivate(Get(session), t))]]
            /\ last' = Quiet

\* line 160: generate_summary; sumOk = FALSE: it raised, and the handler's
\* except returns 500 (lines 173-175)
EndSummary(r, sumOk, text) ==
    /\ req[r].op = "end"
    /\ req[r].pc = "summary"
    /\ summarized' = [summarized EXCEPT ![req[r].sid] = @ + 1]
    /\ UNCHANGED <<store, archive, users, pending, issued, terminated, nreq, faults, taskVars>>
    /\ IF sumOk
       THEN /\ req' = [req EXCEPT ![r].session = Some(SetSummary(Get(@), text)),
                                  ![r].pc = "archive"]
            /\ last' = Quiet
       ELSE /\ req' = [req EXCEPT ![r] = IdleReq]
            /\ last' = Response("end", req[r].sid, 500, "failed_to_end", NoBody,
                                [req[r] EXCEPT !.pc = "summary_failed"],
                                Entry(store, req[r].sid))

\* lines 167-168: saveSessionSummary; a false result is logged only
EndArchive(r, archOk) ==
    /\ req[r].op = "end"
    /\ req[r].pc = "archive"
    /\ UNCHANGED <<store, users, pending, issued, terminated, nreq, faults, taskVars, summarized>>
    /\ LET saved == saveSessionSummary(archive, Get(req[r].session), archOk) IN
       /\ archive' = saved.archive
       /\ req' = [req EXCEPT ![r].pc = AfterArchive(saved.ret),
                             ![r].arch = IF saved.ret THEN "ok" ELSE "failed",
                             ![r].writes = @ + (IF saved.ret THEN 1 ELSE 0)]
       /\ last' = Quiet

\* (mutant) total_messages counts the messages the session still holds
EndPayload_CountsWindow(call) ==
    [NoBody EXCEPT !.summary = Get(call.session).summary,
                   !.message_count = Len(Get(call.session).messages)]

\* the payload of lines 162-166
EndPayload(call) ==
    [NoBody EXCEPT !.summary = Get(call.session).summary,
                   !.message_count = Get(call.session).length]

\* lines 170-171: delete_session, its result not looked at, then the reply
EndDelete(r, storeOk) ==
    /\ req[r].op = "end"
    /\ req[r].pc = "delete"
    /\ UNCHANGED <<archive, users, pending, issued, nreq, faults, taskVars, summarized>>
    /\ LET deleted == delete_session(store, req[r].sid, storeOk)
           call == [req[r] EXCEPT !.writes = @ + (IF deleted.ret THEN 1 ELSE 0),
                                  !.pc = IF deleted.ret THEN "deleted" ELSE "delete_failed"]
       IN  /\ store' = deleted.store
           /\ terminated' = IF deleted.ret THEN terminated \cup {req[r].sid} ELSE terminated
           /\ req' = [req EXCEPT ![r] = IdleReq]
           /\ last' = Response("end", req[r].sid, 200, "ended",
                               EndPayload(req[r]), call, Entry(store, req[r].sid))

(* --------------------------- the store's expiry ------------------------ *)
\* redis_sessions.py line 65, ex=self.session_expiry: a key no SET has renewed
\* for 86400 seconds disappears on its own
Expire(session_id) ==
    /\ session_id \in DOMAIN store
    /\ store' = redis_delete(store, session_id)
    /\ last' = Quiet
    /\ UNCHANGED <<archive, users, pending, req, issued, terminated, nreq, faults, taskVars, summarized>>

(* --------------------------- helper/task_assignment.py ---------------- *)
\* a datetime: the day (day 0 is a Monday), the second of the day and the
\* microsecond
Days == 0..MaxDay
TimesOfDay == {[sec |-> 0, usec |-> 0], [sec |-> 43200, usec |-> 7]}
Dates == {[day |-> d, sec |-> t.sec, usec |-> t.usec] : d \in Days, t \in TimesOfDay}

\* datetime.weekday(): Monday is 0, Sunday is 6
weekday(date) == date.day % 7

\* datetime + timedelta(days, seconds)
PlusDelta(date, days, seconds) ==
    [day |-> date.day + days + ((date.sec + seconds) \div 86400),
     sec |-> (date.sec + seconds) % 86400,
     usec |-> date.usec]

\* datetime <= datetime
NotAfter(a, b) ==
    \/ a.day < b.day
    \/ a.day = b.day /\ a.sec < b.sec
    \/ a.day = b.day /\ a.sec = b.sec /\ a.usec <= b.usec

\* get_week_start, lines 15-18
get_week_start(date) ==
    LET days_since_monday == weekday(date)
        week_start == PlusDelta(date, -days_since_monday, 0)
    IN  [week_start EXCEPT !.sec = 0, !.usec = 0]

\* (mutant) today is not counted
get_days_left_in_week_WithoutToday(date) ==
    LET days_left == SUNDAY - weekday(date) IN
    IF days_left > 1 THEN days_left ELSE 1

\* get_days_left_in_week, lines 26-27
get_days_left_in_week(date) ==
    LET days_left == SUNDAY - weekday(date) + 1 IN
    IF days_left > 1 THEN days_left ELSE 1

\* get_quiz_facets
get_quiz_facets ==
    <<"math|algebra|11", "math|data analysis|11",
      "reading & writing|grammar|11", "reading & writing|vocabulary|11">>

\* create_quiz_task / Task.create_quiz_task: the fields the assignment sets
create_quiz_task(facet, task_number, due_date, week_start) ==
    [type_of_task |-> "quiz", topic |-> facet, task_number |-> task_number,
     due_date |-> due_date, start_date_of_week |-> week_start]

\* create_ai_tutorial_task / Task.create_ai_tutorial_task
create_ai_tutorial_task(chapter_id, task_number, due_date, week_start) ==
    [type_of_task |-> "ai_tutorial", topic |-> chapter_id, task_number |-> task_number,
     due_date |-> due_date, start_date_of_week |-> week_start]

\* the result of user.get_next_chapter(): a chapter id, or None when every
\* chapter is completed; the assignment does not change it between iterations
NextChapters == {None, Some("chapter_1")}

\* per iteration of the tutorial loop: create_ai_tutorial_task returned a task
\* (FALSE: the chapter is not in the lecture notes, or loading them raised)
TutorialOutcomes == [1..2 -> BOOLEAN]

\* lines 150-158: the number of quiz tasks and of tutorial tasks
TaskCounts(days_left) ==
    IF days_left >= 4 THEN [quiz |-> 4, ai_tutorial |-> 2]
    ELSE IF days_left >= 2 THEN [quiz |-> 2, ai_tutorial |-> 1]
    ELSE [quiz |-> 1, ai_tutorial |-> 1]

\* lines 167-179: the quiz loop; task_number is one more than the tasks so far
RECURSIVE QuizLoop(_, _, _, _, _, _)
QuizLoop(done, i, n, current_due_date, days_per_task, week_start) ==
    IF i >= n THEN done
    ELSE QuizLoop(Append(done,
                         create_quiz_task(get_quiz_facets[i + 1], Len(done) + 1,
                                          PlusDelta(current_due_date, i * days_per_task, 0),
                                          week_start)),
                  i + 1, n, current_due_date, days_per_task, week_start)

\* lines 182-196: the tutorial loop; a task is appended, and task_number
\* incremented, only when there is a next chapter and the task was created
RECURSIVE TutorialLoop(_, _, _, _, _, _, _, _)
TutorialLoop(done, i, counts, next_chapter, created, current_due_date, days_per_task, week_start) ==
    IF i >= counts.ai_tutorial THEN done
    ELSE TutorialLoop(
            IF ~IsNone(next_chapter) /\ created[i + 1]
            THEN Append(done,
                        create_ai_tutorial_task(
                            Get(next_chapter), Len(done) + 1,
                            PlusDelta(current_due_date,
                                      (counts.quiz + i) * days_per_task, 0),
                            week_start))
            ELSE done,
            i + 1, counts, next_chapter, created, current_due_date, days_per_task,
            week_start)

\* assign_weekly_tasks, lines 137-198: the list it returns
assign_weekly_tasks(current_date, next_chapter, created) ==
    LET week_start == get_week_start(current_date)
        days_left == get_days_left_in_week(current_date)
        counts == TaskCounts(days_left)
        total_tasks == counts.quiz + counts.ai_tutorial
        per == days_left \div total_tasks
        days_per_task == IF per > 1 THEN per ELSE 1
        current_due_date == [current_date EXCEPT !.sec = END_OF_DAY]
        num_quiz == IF counts.quiz < Len(get_quiz_facets) THEN counts.quiz
                    ELSE Len(get_quiz_facets)
        quizzes == QuizLoop(<<>>, 0, num_quiz, current_due_date, days_per_task, week_start)
    IN  TutorialLoop(quizzes, 0, counts, next_chapter, created, current_due_date,
                     days_per_task, week_start)

\* (mutant) new tasks are assigned on every call
should_assign_new_tasks_Always(week, current_date) == TRUE

\* should_assign_new_tasks, lines 208-214; week is user.current_week_start
should_assign_new_tasks(week, current_date) ==
    LET this_week_start == get_week_start(current_date) IN
    IF IsNone(week) THEN TRUE
    ELSE Get(week).day # this_week_start.day

\* get_current_week_tasks_query_filter, lines 224-225: the end of the week
week_end(current_date) == PlusDelta(get_week_start(current_date), 6, END_OF_DAY)

\* a call of assign_weekly_tasks(user, current_date): line 141 sets the user's
\* current_week_start, the list is returned
AssignWeeklyTasks(current_date, next_chapter, created) ==
    /\ current_week_start' = Some(get_week_start(current_date))
    /\ tasks' = assign_weekly_tasks(current_date, next_chapter, created)
    /\ assigned_on' = Some(current_date)
    /\ UNCHANGED <<attempts_info, attempt_log, sessionVars>>

(* --------------------------- models/task_schema.py --------------------- *)
\* the score of an attempt (None: no score passed) and the other keys of the
\* request body, which update_task_attempt passes on as **attempt_data
\* (task_routing.py:147-150)
Scores == {None, Some(40), Some(90)}
AttemptData ==
    {<<>>, ("time_taken" :> Some(5)), ("best_score" :> Some(10)), ("attempts" :> Some(0))}

\* attempts_info of a new task (create_quiz_task, create_ai_tutorial_task);
\* every value is None or a present value
NewAttemptsInfo ==
    ("attempts" :> Some(0)) @@ ("best_score" :> None) @@ ("last_attempt" :> None)

\* Task.add_attempt, lines 160-172
add_attempt(info, score, attempt_data, now) ==
    LET counted == IF "attempts" \notin DOMAIN info THEN ("attempts" :> Some(0)) @@ info
                   ELSE info
        stamped == [counted EXCEPT !["attempts"] = Some(Get(@) + 1),
                                   !["last_attempt"] = Some(now)]
        best == IF "best_score" \in DOMAIN stamped THEN stamped["best_score"] ELSE None
        scored == IF IsNone(score) THEN stamped
                  ELSE IF IsNone(best) THEN ("best_score" :> score) @@ stamped
                  ELSE IF Get(score) > Get(best) THEN ("best_score" :> score) @@ stamped
                  ELSE stamped
    IN  [k \in DOMAIN attempt_data \cup DOMAIN scored |->
            IF k \in DOMAIN attempt_data THEN attempt_data[k] ELSE scored[k]]

\* a call of task.add_attempt(score, **attempt_data)
AddAttempt(score, attempt_data) ==
    /\ Len(attempt_log) < MaxAttempts
    /\ attempts_info' = add_attempt(attempts_info, score, attempt_data, Now)
    /\ attempt_log' = Append(attempt_log, score)
    /\ UNCHANGED <<current_week_start, tasks, assigned_on, sessionVars>>

\* no task assigned, no attempt made
TasksInit ==
    /\ current_week_start = None
    /\ tasks = <<>>
    /\ assigned_on = None
    /\ attempts_info = NewAttemptsInfo
    /\ attempt_log = <<>>

(* --------------------------- initial states ---------------------------- *)
\* one successful exchange of session_message, as it changes the session
\* (lines 108-109 and 123-124)
Exchange(session, text, reply) == AppendAssistant(AppendUser(session, text), reply)

\* the transcript u1, a1, ..., un, an of n exchanges
Transcript(n) ==
    [i \in 1..(2 * n) |-> IF i % 2 = 1 THEN [role |-> "user", content |-> "hi"]
                          ELSE [role |-> "assistant", content |-> "re"]]

\* The session of u1 that n successful exchanges leave in the store: the window
\* cut when the n-th user message was appended, and the n-th reply after it.
\* SessionAfter(n + 1) = Exchange(SessionAfter(n), "hi", "re"), see InitReachable.
SessionAfter(n) ==
    LET new == TutorSession("u1", "albert_einstein", "english", "s1", <<>>,
                            build_system_prompt("albert_einstein", <<>>), 0)
    IN  IF n = 0 THEN new
        ELSE [new EXCEPT
                !.messages = Append(LastN(SubSeq(Transcript(n), 1, 2 * n - 1), WINDOW),
                                    [role |-> "assistant", content |-> "re"]),
                !.length = EXCHANGE_STEP * n]

\* exchanges an active session can have behind it
LiveExchanges == 0..((MAX_LENGTH \div EXCHANGE_STEP) - 1)

\* the ages of s1 the runs start from: new, with a full window of 20 messages,
\* and one exchange before the limit
InitExchanges == {0, WINDOW \div 2, (MAX_LENGTH \div EXCHANGE_STEP) - 1}

\* The server has been running: session s1 may have been started by u1 and be
\* anywhere in its life. With the store empty u1 has started no session yet;
\* with s1 in the store u1 has used up the quota (s1 and, when the quota is
\* larger than one, sessions that are gone from the store).
InitWith(F) ==
    /\ faults = F
    /\ \/ /\ store = << >>
          /\ issued = {}
       \/ \E n \in InitExchanges :
             /\ store = ("s1" :> pickle_dumps(SessionAfter(n)))
             /\ issued = {"s1"}
    /\ archive = << >>
    /\ users = ("u1" :> [id |-> "u1",
                         session_count |-> IF issued = {} THEN 0 ELSE QuotaMax,
                         max_sessions |-> QuotaMax])
    /\ pending = {}
    /\ req = [r \in Slots |-> IdleReq]
    /\ terminated = {}
    /\ summarized = [s \in SessionIds |-> 0]
    /\ nreq = 0
    /\ last = Quiet
    /\ TasksInit

\* every initial session is the result of exchanges of session_message
InitReachable ==
    \A n \in LiveExchanges \ {0} : SessionAfter(n) = Exchange(SessionAfter(n - 1), "hi", "re")

Init == InitWith(FaultKinds)
InitNoFail == InitWith({})
InitStoreUp == InitWith(FaultKinds \ {"store"})

Next ==
    \/ \E r \in Slots, data \in StartBodies, sid \in SessionIds,
          usersOk \in Outcomes("users"), storeOk \in Outcomes("store") :
          StartSession(r, data, sid, Now, usersOk, storeOk)
    \/ \E user \in pending, ok \in Outcomes("users") : UpdateUserAsync(user, ok)
    \/ \E r \in Slots, sid \in SessionIds, data \in MessageBodies,
          storeOk \in Outcomes("store") : MessageLoad(r, sid, data, storeOk)
    \/ \E r \in Slots, llmOk \in Outcomes("llm"), reply \in Replies :
          MessageModel(r, llmOk, reply, Now)
    \/ \E r \in Slots, sumOk \in Outcomes("summary"), text \in Summaries :
          MessageSummary(r, sumOk, text)
    \/ \E r \in Slots, archOk \in Outcomes("archive") : MessageArchive(r, archOk)
    \/ \E r \in Slots, storeOk \in Outcomes("store") : MessageDelete(r, storeOk)
    \/ \E r \in Slots, storeOk \in Outcomes("store") : MessageSave(r, storeOk)
    \/ \E r \in Slots, sid \in SessionIds, storeOk \in Outcomes("store") :
          EndLoad(r, sid, Now, storeOk)
    \/ \E r \in Slots, sumOk \in Outcomes("summary"), text \in Summaries :
          EndSummary(r, sumOk, text)
    \/ \E r \in Slots, archOk \in Outcomes("archive") : EndArchive(r, archOk)
    \/ \E r \in Slots, storeOk \in Outcomes("store") : EndDelete(r, storeOk)
    \/ \E sid \in SessionIds : Expire(sid)

\* Requests served one at a time: a request arrives only when no handler is
\* running, so every handler runs in the first slot; the _update_user_async
\* thread and the store's expiry still run on their own.
NextSeq ==
    \/ \E r \in {1}, data \in StartBodies, sid \in SessionIds,
          usersOk \in Outcomes("users"), storeOk \in Outcomes("store") :
          StartSession(r, data, sid, Now, usersOk, storeOk)
    \/ \E user \in pending, ok \in Outcomes("users") : UpdateUserAsync(user, ok)
    \/ \E r \in {1}, sid \in SessionIds, data \in MessageBodies,
          storeOk \in Outcomes("store") : MessageLoad(r, sid, data, storeOk)
    \/ \E r \in {1}, llmOk \in Outcomes("llm"), reply \in Replies :
          MessageModel(r, llmOk, reply, Now)
    \/ \E r \in {1}, sumOk \in Outcomes("summary"), text \in Summaries :
          MessageSummary(r, sumOk, text)
    \/ \E r \in {1}, archOk \in Outcomes("archive") : MessageArchive(r, archOk)
    \/ \E r \in {1}, storeOk \in Outcomes("store") : MessageDelete(r, storeOk)
    \/ \E r \in {1}, storeOk \in Outcomes("store") : MessageSave(r, storeOk)
    \/ \E r \in {1}, sid \in SessionIds, storeOk \in Outcomes("store") :
          EndLoad(r, sid, Now, storeOk)
    \/ \E r \in {1}, sumOk \in Outcomes("summary"), text \in Summaries :
          EndSummary(r, sumOk, text)
    \/ \E r \in {1}, archOk \in Outcomes("archive") : EndArchive(r, archOk)
    \/ \E r \in {1}, storeOk \in Outcomes("store") : EndDelete(r, storeOk)
    \/ \E sid \in SessionIds : Expire(sid)

\* message texts that tell two sendMessage requests apart
RaceTexts == {"hi", "yo"}

\* sendMessage requests only, served concurrently, with texts that differ
NextRace ==
    \/ \E r \in Slots, sid \in SessionIds, t \in RaceTexts,
          storeOk \in Outcomes("store") :
          MessageLoad(r, sid, Some([message |-> t]), storeOk)
    \/ \E r \in Slots, llmOk \in Outcomes("llm"), reply \in Replies :
          MessageModel(r, llmOk, reply, Now)
    \/ \E r \in Slots, sumOk \in Outcomes("summary"), text \in Summaries :
          MessageSummary(r, sumOk, text)
    \/ \E r \in Slots, archOk \in Outcomes("archive") : MessageArchive(r, archOk)
    \/ \E r \in Slots, storeOk \in Outcomes("store") : MessageDelete(r, storeOk)
    \/ \E r \in Slots, storeOk \in Outcomes("store") : MessageSave(r, storeOk)

(* ------------------- the window handed to the model ------------------- *)
\* exchanges a session may have behind it when a window run begins
MaxPrior == 24

\* the text of the k-th user message and of the k-th reply, all different
UserText(k) == "u" \o ToString(k)
ReplyText(k) == "a" \o ToString(k)

\* the full transcript u1, a1, ..., un, an
NumberedTranscript(n) ==
    [i \in 1..(2 * n) |->
        IF i % 2 = 1 THEN [role |-> "user", content |-> UserText((i + 1) \div 2)]
        ELSE [role |-> "assistant", content |-> ReplyText(i \div 2)]]

\* The session n numbered exchanges leave in the store (as SessionAfter, with
\* texts that differ):
\* WindowSession(n + 1) = Exchange(WindowSession(n), UserText(n + 1), ReplyText(n + 1)),
\* see WindowReachable.
WindowSession(n) ==
    LET new == TutorSession("u1", "albert_einstein", "english", "s1", <<>>,
                            build_system_prompt("albert_einstein", <<>>), 0)
    IN  IF n = 0 THEN new
        ELSE [new EXCEPT
                !.messages = Append(LastN(SubSeq(NumberedTranscript(n), 1, 2 * n - 1),
                                          WINDOW),
                                    [role |-> "assistant", content |-> ReplyText(n)]),
                !.length = EXCHANGE_STEP * n]

\* ai_api.py call_openai_api, line 40: the messages sent to the model after the
\* system prompt
ModelMessages(session) == session.messages

\* the exchanges a session has behind it, one request at a time
ExchangesOf(session) == session.length \div EXCHANGE_STEP

InitWindow ==
    /\ faults = {}
    /\ \E n \in 0..MaxPrior : store = ("s1" :> pickle_dumps(WindowSession(n)))
    /\ issued = {"s1"}
    /\ archive = << >>
    /\ users = ("u1" :> [id |-> "u1", session_count |-> QuotaMax, max_sessions |-> QuotaMax])
    /\ pending = {}
    /\ req = [r \in Slots |-> IdleReq]
    /\ terminated = {}
    /\ summarized = [s \in SessionIds |-> 0]
    /\ nreq = 0
    /\ last = Quiet
    /\ TasksInit

\* sendMessage on s1, one request at a time, the k-th exchange carrying the
\* k-th text and getting the k-th reply
NextWindow ==
    \/ \E r \in {1}, storeOk \in Outcomes("store") :
          /\ "s1" \in DOMAIN store
          /\ MessageLoad(r, "s1",
                         Some([message |->
                                 UserText(ExchangesOf(pickle_loads(store["s1"])) + 1)]),
                         storeOk)
    \/ \E r \in {1}, llmOk \in Outcomes("llm") :
          /\ req[r].pc = "llm"
          /\ MessageModel(r, llmOk, ReplyText(ExchangesOf(Get(req[r].session)) + 1), Now)
    \/ \E r \in {1}, storeOk \in Outcomes("store") : MessageSave(r, storeOk)

\* any failure may happen
Spec == Init /\ [][Next]_vars
\* the store and the collaborators never fail
SpecNoFail == InitNoFail /\ [][Next]_vars
\* the store always answers; the collaborators may fail
SpecStoreUp == InitStoreUp /\ [][Next]_vars
\* one request at a time, and nothing fails
SpecSeq == InitNoFail /\ [][NextSeq]_vars
\* concurrent sendMessage requests, and nothing fails
SpecRace == InitNoFail /\ [][NextRace]_vars
\* successive exchanges on one session, every text different
SpecWindow == InitWindow /\ [][NextWindow]_vars

\* the weekly assignment: calls of assign_weekly_tasks on any date
InitTasks == InitWith({}) /\ store = << >>

NextAssign ==
    \E current_date \in Dates : \E next_chapter \in NextChapters :
       \E created \in TutorialOutcomes :
          AssignWeeklyTasks(current_date, next_chapter, created)

SpecAssign == InitTasks /\ [][NextAssign]_vars

\* the attempts on one task: calls of add_attempt
NextAttempts ==
    \E score \in Scores : \E attempt_data \in AttemptData :
       AddAttempt(score, attempt_data)

SpecAttempts == InitTasks /\ [][NextAttempts]_vars

(* ============================ properties =============================== *)
\* the session stored under a key
Live(sid) == pickle_loads(store[sid])

\* a handler returned in the step just taken
Returned == last.op # "none"

\* C1 (as claimed): once a termination has deleted S from the store, S is never
\* in the store again, and the only success response on S is the one of the
\* request that deleted it. Checked with no failures (SpecNoFail).
C1_TerminatedIsAbsorbing ==
    \A s \in terminated :
        /\ s \notin DOMAIN store
        /\ (last.sid = s /\ last.op \in {"message", "end"} /\ last.code = 200)
              => last.call.pc = "deleted"

\* is_active = true iff ended_at = null iff summary = null
LifecycleConsistent(x) ==
    /\ x.is_active <=> IsNone(x.ended_at)
    /\ IsNone(x.ended_at) <=> IsNone(x.summary)

\* C2: every session in the live store and every terminal record in the archive
\* has is_active = true iff ended_at = null iff summary = null.
C2_LifecycleFieldsAgree ==
    /\ \A s \in DOMAIN store : LifecycleConsistent(Live(s))
    /\ \A k \in DOMAIN archive : LifecycleConsistent(archive[k])

\* C2 witness: a terminal record is in the archive while a live session is in
\* the store
C2_Witness ==
    /\ \E k \in DOMAIN archive : ~archive[k].is_active /\ ~IsNone(archive[k].summary)
    /\ \E s \in DOMAIN store : Live(s).is_active

\* C3 (as claimed): the session that sendMessage writes to the store after it
\* appended the reply to a window of at most 20 messages has at most 20 messages.
C3_StoredWindowAtMost20 ==
    (/\ last.kind = "exchanged"
     /\ last.call.pc = "saved"
     /\ ~IsNone(last.before)
     /\ Len(pickle_loads(Get(last.before)).messages) <= WINDOW)
        => Len(Live(last.sid).messages) <= WINDOW

\* C4 (as claimed): the length stored for a session never decreases from one
\* state to the next while the session stays in the store.
C4_StoredLengthNeverDecreases ==
    [][\A s \in DOMAIN store :
          s \in DOMAIN store' => pickle_loads(store'[s]).length >= Live(s).length]_vars

\* C5 (as claimed): a start that returns a session_id has that session in the
\* store; a failed save is reported as a creation failure.
C5_StartedSessionIsStored ==
    (last.op = "start" /\ last.code = 200) => last.body.session_id \in DOMAIN store

\* C6 (as claimed): a termination whose summary generation failed still
\* completes: the request succeeds and the session is gone from the store.
C6_SummaryFailureNonFatal ==
    last.call.pc = "summary_failed" => (last.code = 200 /\ last.sid \notin DOMAIN store)

\* C7: when the archive write of a termination failed, the handler goes on to
\* delete the session and returns success with the session gone from the store,
\* in end_session and in the auto-terminating session_message alike.
\* Checked with the store answering (SpecStoreUp).
C7_ArchiveFailureStillDeletes ==
    /\ \A r \in Slots : req[r].arch = "failed" => req[r].pc = "delete"
    /\ (Returned /\ last.call.arch = "failed")
          => /\ last.code = 200
             /\ last.kind = (IF last.op = "end" THEN "ended" ELSE "terminated")
             /\ last.call.pc = "deleted"
             /\ last.sid \notin DOMAIN store

\* C7 witness: an explicit end whose archive write failed has returned
C7_Witness ==
    /\ last.op = "end"
    /\ last.call.arch = "failed"
    /\ last.code = 200
    /\ ~IsNone(last.before)

\* C7 witness, auto-termination path (same formula, second case)
C7_WitnessAuto ==
    /\ last.op = "message"
    /\ last.call.arch = "failed"
    /\ last.code = 200
    /\ ~IsNone(last.before)

\* C8 (as claimed): whenever a termination returns its success response, the
\* session is absent from the store, also when store operations may fail.
C8_SuccessMeansAbsent ==
    (last.code = 200 /\ last.kind \in {"ended", "terminated"}) => last.sid \notin DOMAIN store

\* C9: a sendMessage whose model call failed has made no store write, archive
\* write or delete, and leaves the store entry of its session as it was.
C9_ModelFailureWritesNothing ==
    last.kind = "openai_failed"
        => /\ last.call.writes = 0
           /\ last.call.arch = "na"
           /\ Entry(store, last.sid) = last.before

\* C9 witness: the model call of a request on a stored session has failed, the
\* user's message already appended to the handler's copy
C9_Witness ==
    /\ last.kind = "openai_failed"
    /\ last.sid \in DOMAIN store
    /\ Get(last.call.session).messages # Live(last.sid).messages

\* C10 (as claimed): a failed save at the end of a non-terminating exchange is
\* reported (no success payload) and leaves the stored session as it was.
C10_SaveFailureReported ==
    last.call.pc = "save_failed"
        => (last.code # 200 /\ Entry(store, last.sid) = last.before)

\* a response to a request that was refused when it arrived: no handler state
\* was built for it
AtArrival == Returned /\ last.call = IdleReq

\* the terminal record of a session in the archive, if there is one
Archived(sid) == {k \in DOMAIN archive : k[2] = sid}

\* C11: with one request at a time and no failures, an exchange that leaves the
\* length below 100 returns session_active = true and leaves the session active
\* in the store; the exchange that brings the length to 100 (the 50th) returns
\* session_active = false and message_count = 100, has written a terminal record
\* with a summary, and leaves the session out of the store; from then on the
\* session stays out of the store and sendMessage on it is refused as not found.
C11_FiftiethExchangeTerminates ==
    /\ \A s \in DOMAIN store : Live(s).is_active /\ Live(s).length < MAX_LENGTH
    /\ (last.op = "message" /\ last.code = 200) =>
          /\ ~IsNone(last.before) =>
                last.body.message_count
                   = pickle_loads(Get(last.before)).length + EXCHANGE_STEP
          /\ IF last.body.message_count < MAX_LENGTH
             THEN /\ last.kind = "exchanged"
                  /\ last.body.session_active
                  /\ last.sid \in DOMAIN store
                  /\ Live(last.sid).length = last.body.message_count
             ELSE /\ last.kind = "terminated"
                  /\ last.body.message_count = MAX_LENGTH
                  /\ ~last.body.session_active
                  /\ last.sid \notin DOMAIN store
                  /\ last.sid \in terminated
                  /\ \E k \in Archived(last.sid) :
                        /\ ~archive[k].is_active
                        /\ ~IsNone(archive[k].summary)
                        /\ archive[k].length = MAX_LENGTH
    /\ \A s \in terminated : s \notin DOMAIN store
    /\ (last.op = "message" /\ AtArrival /\ last.sid \in terminated
           /\ last.kind # "no_json")
          => (last.code = 404 /\ last.kind = "not_found_or_ended")

\* C11 witness: the 50th exchange has terminated the session (its record of
\* length 100 is in the archive) and the 51st sendMessage was refused
C11_Witness ==
    /\ last.op = "message"
    /\ last.kind = "not_found_or_ended"
    /\ last.sid \in terminated
    /\ \E k \in Archived(last.sid) : archive[k].length = MAX_LENGTH
    /\ summarized[last.sid] = 1

\* every user record is at its quota limit
AllAtQuota == \A u \in DOMAIN users : users[u].session_count >= users[u].max_sessions

\* C12: a start request that names a user, made when the user's record is at its
\* limit, returns the quota-denied outcome; and every quota-denied start leaves
\* the live store (its keys and their values) as it was, hands out no session
\* and spawns no counter update.
C12_DeniedStartWritesNothing ==
    [][/\ (/\ last'.op = "start"
           /\ last'.kind \notin {"no_json", "user_id_required"}
           /\ AllAtQuota)
          => (last'.code = 403 /\ last'.kind = "quota_denied")
       /\ last'.kind = "quota_denied"
          => /\ DOMAIN store' = DOMAIN store
             /\ store' = store
             /\ issued' = issued
             /\ pending' = pending]_vars

\* C12 witness: a start was denied for the user at the limit while another
\* session is in the store
C12_Witness ==
    /\ last.op = "start"
    /\ last.kind = "quota_denied"
    /\ AllAtQuota
    /\ DOMAIN store # {}

\* the starts the gate has approved for a user: every session id handed out
\* belongs to an approved start of the session's owner, and u1 is the only user
\* with a record
ApprovedStarts(u) == IF u = "u1" THEN Cardinality(issued) ELSE 0

\* C13 (as claimed): under any interleaving of start requests, the starts the
\* gate has approved for a user never exceed the user's maximum.
\* Checked with no failures (SpecNoFail).
C13_ApprovedStartsWithinQuota ==
    \A u \in DOMAIN users : ApprovedStarts(u) <= users[u].max_sessions

\* C14: a sendMessage with a JSON body that arrives for a session id absent from
\* the store is refused with 404 "not found or ended" and changes nothing (store,
\* archive, user records, handlers in flight); no sendMessage handler ever gets
\* past the load for an absent id. The outcome depends on nothing but the
\* absence, which the refusal leaves as it was, so a repetition gets it again.
C14_AbsentSessionRefused ==
    [][/\ (/\ last'.op = "message"
           /\ last'.call = IdleReq
           /\ last'.kind # "no_json"
           /\ last'.sid \notin DOMAIN store)
          => /\ last'.code = 404
             /\ last'.kind = "not_found_or_ended"
             /\ UNCHANGED <<store, archive, users, pending, req, issued, terminated,
                            summarized>>
       /\ \A r \in Slots :
             (req[r].pc = "idle" /\ req'[r].op = "message" /\ req'[r].pc = "llm")
                => req'[r].sid \in DOMAIN store]_vars

\* C14 witness: sendMessage was refused for a session that was started, never
\* terminated, and is gone from the store (expired), another one being stored
C14_Witness ==
    /\ last.op = "message"
    /\ AtArrival
    /\ last.kind = "not_found_or_ended"
    /\ last.sid \in issued \ terminated
    /\ last.sid \notin DOMAIN store
    /\ DOMAIN store # {}

\* C15 (as claimed): an end request for a session id that never existed is
\* refused as not found, and an end request for a session that has already been
\* ended is refused with the distinct already-ended outcome.
\* Checked with one request at a time and no failures (SpecSeq).
C15_EndRefusalsDistinct ==
    (last.op = "end" /\ AtArrival)
        => /\ last.sid \notin issued => (last.code = 404 /\ last.kind = "not_found")
           /\ last.sid \in terminated => (last.code = 400 /\ last.kind = "already_ended")

\* the outcomes that tell the caller the session does not exist or has ended
DenialKinds == {"not_found_or_ended", "not_found", "already_ended"}

\* A sendMessage or end request was turned away at the load although the store
\* holds the session, active: the store did not answer the read (get_session
\* returned None for a failed ping or GET). With a store that answers this never
\* happens (StoreAnswers).
LoadFailed ==
    /\ last.op \in {"message", "end"}
    /\ AtArrival
    /\ last.kind \notin {"no_json", "message_required"}
    /\ ~IsNone(last.before)
    /\ pickle_loads(Get(last.before)).is_active

\* with no failures no request is turned away at the load of a stored session
StoreAnswers == ~LoadFailed

\* C16 (as claimed): when the store fails to answer the read of sendMessage or
\* end, the outcome is not one of the denial outcomes.
C16_StoreFailureDistinguishable ==
    LoadFailed => last.kind \notin DenialKinds

\* a handler that has called generate_summary, or is about to
InTermination(r) == req[r].pc \in {"summary", "archive", "delete"}

\* C17 (as claimed): under any interleaving of end and sendMessage requests,
\* generate_summary is called at most once for a session id over the whole run,
\* and only by a handler that is terminating the session.
\* Checked with no failures (SpecNoFail).
C17_SummaryAtMostOnce ==
    /\ \A s \in SessionIds : summarized[s] <= 1
    /\ \A r \in Slots :
          InTermination(r) => /\ req[r].op \in {"message", "end"}
                              /\ ~Get(req[r].session).is_active

\* A sendMessage has just saved over an entry that another sendMessage wrote
\* after this one had loaded the session: the entry it replaced is longer than
\* the session this handler loaded.
Overwrote ==
    /\ last.kind = "exchanged"
    /\ last.call.pc = "saved"
    /\ ~IsNone(last.before)
    /\ pickle_loads(Get(last.before)).length
          > Get(last.call.session).length - EXCHANGE_STEP

\* C18: when two sendMessage requests load the same session before either
\* saves, the one that saves last returns success and the store holds its copy
\* alone: the stored length does not grow with the second save (2 more than
\* what both loaded, not 4), there are no more messages than before the save,
\* and on a session that was new when both loaded it the earlier writer's two
\* messages are gone.
C18_LaterWriterOverwrites ==
    Overwrote =>
        LET mine == Get(last.call.session)
            theirs == pickle_loads(Get(last.before))
        IN  /\ last.code = 200
            /\ Live(last.sid) = mine
            /\ Live(last.sid).length <= theirs.length
            /\ Len(Live(last.sid).messages) <= Len(theirs.messages)
            /\ mine.length = EXCHANGE_STEP =>
                  /\ Len(Live(last.sid).messages) = 2
                  /\ theirs.messages[1] # mine.messages[1]
                        => \A i \in 1..2 : Live(last.sid).messages[i] # theirs.messages[1]

\* C18 witness: on a new session, the writer of "yo" has replaced the result of
\* the writer of "hi"; the stored length is 2
C18_Witness ==
    /\ Overwrote
    /\ pickle_loads(Get(last.before)).messages[1].content = "hi"
    /\ Live(last.sid).messages[1].content = "yo"
    /\ Live(last.sid).length = EXCHANGE_STEP
    /\ pickle_loads(Get(last.before)).length = EXCHANGE_STEP

\* the session as n exchanges of "hi"/"re" leave it, whatever its id and time
\* of creation
IsSessionAfter(session, n) ==
    [session EXCEPT !.session_id = "s1", !.created_at = 0] = SessionAfter(n)

\* C19: with one request at a time and no failures, the k-th exchange on a
\* session (1 <= k < 50) returns session_active = true and message_count = 2k,
\* the store then holding the session as k exchanges leave it; an end request
\* that finds the session returns its summary and total_messages equal to the
\* stored length (2k) and removes it; every later sendMessage on it is refused
\* as not found.
C19_ExchangesThenEnd ==
    /\ (last.op = "message" /\ last.kind = "exchanged") =>
          /\ last.code = 200
          /\ last.body.session_active
          /\ last.body.message_count \in
                {EXCHANGE_STEP * k : k \in 1..((MAX_LENGTH \div EXCHANGE_STEP) - 1)}
          /\ last.sid \in DOMAIN store
          /\ IsSessionAfter(Live(last.sid), last.body.message_count \div EXCHANGE_STEP)
          /\ ~IsNone(last.before) =>
                IsSessionAfter(pickle_loads(Get(last.before)),
                               (last.body.message_count \div EXCHANGE_STEP) - 1)
    /\ (last.op = "end" /\ AtArrival) => IsNone(last.before)
    /\ (last.op = "end" /\ ~AtArrival) =>
          /\ last.code = 200
          /\ last.kind = "ended"
          /\ ~IsNone(last.body.summary)
          /\ ~IsNone(last.before) =>
                last.body.message_count = pickle_loads(Get(last.before)).length
          /\ last.sid \notin DOMAIN store
          /\ last.sid \in terminated
    /\ (last.op = "message" /\ AtArrival /\ last.sid \in terminated
           /\ last.kind # "no_json")
          => (last.kind = "not_found_or_ended" /\ last.sid \notin DOMAIN store)

\* C19 witness: after one exchange (message_count 2) the session was ended,
\* its record of length 2 is in the archive, and a later sendMessage was refused
C19_Witness ==
    /\ last.op = "message"
    /\ last.kind = "not_found_or_ended"
    /\ last.sid \in terminated
    /\ \E k \in Archived(last.sid) :
          archive[k].length = EXCHANGE_STEP /\ ~IsNone(archive[k].summary)

\* every initial session of a window run is the result of exchanges of
\* session_message, and so is the stored session all along the run
WindowReachable ==
    /\ \A n \in 1..MaxPrior :
          WindowSession(n) = Exchange(WindowSession(n - 1), UserText(n), ReplyText(n))
    /\ \A s \in DOMAIN store : Live(s) = WindowSession(ExchangesOf(Live(s)))

\* the last m entries of a sequence
LastEntries(seq, m) == SubSeq(seq, Len(seq) - m + 1, Len(seq))

\* C20: one request at a time, after n exchanges the messages handed to the model
\* on exchange n + 1 (the system prompt apart) are the last min(20, 2n + 1)
\* entries, in order, of the transcript u1, a1, ..., un, an, u(n+1); for n = 15
\* they are 20.
C20_ModelGetsTranscriptTail ==
    \A r \in Slots :
        (req[r].op = "message" /\ req[r].pc = "llm") =>
            LET n == ExchangesOf(Get(req[r].session))
                handed == ModelMessages(Get(req[r].session))
                full == SubSeq(NumberedTranscript(n + 1), 1, 2 * n + 1)
                m == IF 2 * n + 1 < 20 THEN 2 * n + 1 ELSE 20
            IN  /\ Len(handed) = m
                /\ handed = LastEntries(full, m)
                /\ n = 15 => Len(handed) = 20

\* C20 witness: exchange 16 is at the model call, with the 20 messages a6 ... u16
C20_Witness ==
    \E r \in Slots :
        /\ req[r].op = "message"
        /\ req[r].pc = "llm"
        /\ ExchangesOf(Get(req[r].session)) = 15
        /\ Len(ModelMessages(Get(req[r].session))) = 20
        /\ ModelMessages(Get(req[r].session))[1] = [role |-> "assistant", content |-> "a6"]
        /\ ModelMessages(Get(req[r].session))[20] = [role |-> "user", content |-> "u16"]

\* the handlers that hold a copy of a session
Holding == {r \in Slots : ~IsNone(req[r].session)}

Even(n) == n % 2 = 0

\* C21: the length of every session in the store, of every record in the
\* archive and of every copy a handler holds is even; a session is stored with
\* length 0 by start; the only step that changes the length of a handler's copy
\* is the reply of the model, which adds 2.
C21_LengthEven ==
    /\ [](/\ \A s \in DOMAIN store : Even(Live(s).length)
          /\ \A k \in DOMAIN archive : Even(archive[k].length)
          /\ \A r \in Holding : Even(Get(req[r].session).length)
          /\ (last.kind = "started" /\ last.sid \in DOMAIN store)
                => Live(last.sid).length = 0)
    /\ [][\A r \in Slots :
             (~IsNone(req[r].session) /\ ~IsNone(req'[r].session))
                => IF req[r].pc = "llm" /\ req'[r] # req[r]
                   THEN Get(req'[r].session).length
                           = Get(req[r].session).length + EXCHANGE_STEP
                   ELSE Get(req'[r].session).length = Get(req[r].session).length]_vars

\* C21 witness: a session was started, made one exchange and was ended: its
\* archive record has length 2
C21_Witness ==
    \E k \in DOMAIN archive : archive[k].length = EXCHANGE_STEP

\* C22: every record of the archive is stored under (user_id, session_id) of the
\* session it describes, has no message list, and carries a summary, the length,
\* is_active = false and ended_at; each write to the archive is made by a
\* handler in its archive step and stores these fields of the handler's copy.
C22_ArchiveRecordShape ==
    /\ [](\A k \in DOMAIN archive :
            /\ k = <<archive[k].user_id, archive[k].session_id>>
            /\ "messages" \notin DOMAIN archive[k]
            /\ {"summary", "length", "is_active", "ended_at"} \subseteq DOMAIN archive[k]
            /\ ~IsNone(archive[k].summary)
            /\ ~archive[k].is_active
            /\ ~IsNone(archive[k].ended_at))
    /\ [][archive' # archive =>
            \E r \in Holding :
               LET session == Get(req[r].session)
                   k == <<session.user_id, session.session_id>>
               IN /\ req[r].pc = "archive"
                  /\ req[r].sid = session.session_id
                  /\ \A j \in DOMAIN archive' \ {k} :
                        j \in DOMAIN archive /\ archive'[j] = archive[j]
                  /\ k \in DOMAIN archive'
                  /\ archive'[k].summary = session.summary
                  /\ archive'[k].length = session.length
                  /\ archive'[k].ended_at = session.ended_at]_vars

\* C22 witness: the record of an automatically terminated session is in the
\* archive, the handler that wrote it has not deleted the session yet
C22_Witness ==
    \E r \in Holding :
       /\ req[r].arch = "ok"
       /\ <<Get(req[r].session).user_id, req[r].sid>> \in DOMAIN archive
       /\ archive[<<Get(req[r].session).user_id, req[r].sid>>].length = MAX_LENGTH

\* the configuration snapshot of a session
Config(session) ==
    [f \in {"user_id", "session_id", "personality", "language", "context",
            "created_at", "session_system_prompt"} |-> session[f]]

\* C23: no step changes the configuration snapshot of a session that stays in
\* the store; a handler's copy has the snapshot of the stored session it loaded
\* and keeps it; a key that sendMessage puts back into the store gets the
\* snapshot of the writer's copy.
C23_ConfigurationNeverChanges ==
    [][/\ \A s \in DOMAIN store \cap DOMAIN store' :
             Config(pickle_loads(store'[s])) = Config(Live(s))
       /\ \A r \in Slots :
             /\ (~IsNone(req[r].session) /\ ~IsNone(req'[r].session))
                   => Config(Get(req'[r].session)) = Config(Get(req[r].session))
             /\ (IsNone(req[r].session) /\ ~IsNone(req'[r].session))
                   => /\ req'[r].sid \in DOMAIN store
                      /\ Config(Get(req'[r].session)) = Config(Live(req'[r].sid))
       /\ \A s \in DOMAIN store' \ DOMAIN store :
             \/ last'.kind = "started" /\ last'.sid = s
             \/ \E r \in Holding :
                   /\ req[r].sid = s
                   /\ Config(pickle_loads(store'[s])) = Config(Get(req[r].session))]_vars

\* C23 witness: sendMessage wrote the session back over the stored one, with
\* other messages
C23_Witness ==
    /\ last.kind = "exchanged"
    /\ last.sid \in DOMAIN store
    /\ ~IsNone(last.before)
    /\ Live(last.sid).messages # pickle_loads(Get(last.before)).messages

\* C24 (as claimed): in every model call of sendMessage the first message has
\* role system and the stored system prompt as content, and the rest is the
\* session's window ending with the caller's user message.
C24_SystemMessageIsStoredPrompt ==
    \A r \in Slots :
       req[r].pc = "llm" =>
          LET session == Get(req[r].session)
              sent == ModelRequest(session, req[r].use_rag)
          IN  /\ sent[1].role = "system"
              /\ sent[1].content = session.session_system_prompt
              /\ SubSeq(sent, 2, Len(sent)) = session.messages
              /\ sent[Len(sent)].role = "user"

C26_FailedStoreCallsChangeNothing ==
    /\ [](\A id \in SessionIds :
            /\ get_session(store, id, FALSE) = None
            /\ \A r \in Holding :
                  LET saved == save_session(store, id, Get(req[r].session), FALSE)
                  IN  ~saved.ret /\ saved.store = store)
    /\ [][/\ last'.call.pc = "save_failed" => (store' = store /\ last'.code = 200)
          /\ (last'.kind = "started" /\ last'.call.writes = 0)
                => (store' = store /\ last'.code = 200)
          /\ LoadFailed' => (store' = store /\ last'.code = 404)]_vars

\* C26 witness: the save of sendMessage failed on a key that holds a session
C26_Witness ==
    /\ last.call.pc = "save_failed"
    /\ last.sid \in DOMAIN store

\* C27: with the store answering, delete(id) returns true whether or not the key
\* is there, changes nothing when it is absent, gives the same store applied
\* twice as applied once, and leaves every other key as it was; the delete step
\* of a termination changes no key but its own.
C27_DeleteIdempotent ==
    /\ [](\A id \in SessionIds :
            LET once == delete_session(store, id, TRUE)
                twice == delete_session(once.store, id, TRUE)
            IN  /\ once.ret /\ twice.ret
                /\ id \notin DOMAIN store => once.store = store
                /\ id \notin DOMAIN once.store
                /\ twice.store = once.store
                /\ \A k \in SessionIds \ {id} : Entry(once.store, k) = Entry(store, k))
    /\ [][last'.call.pc = "deleted"
            => /\ last'.sid \notin DOMAIN store'
               /\ \A k \in SessionIds \ {last'.sid} : Entry(store', k) = Entry(store, k)]_vars

\* C27 witness: a termination deleted a key that was no longer in the store
\* while another session was in it
C27_Witness ==
    /\ last.call.pc = "deleted"
    /\ IsNone(last.before)
    /\ DOMAIN store # {}

\* C28: right after a start that returned a session id and whose save the store
\* took, the session under that id is active, has length 0, no messages, no
\* summary and no ended_at, carries the returned id, and its user_id is the
\* user the request named (the only user the gate approves, whose start was
\* counted).
C28_StartedSessionIsFresh ==
    (last.kind = "started" /\ last.call.writes = 1)
       => /\ last.code = 200
          /\ last.body.session_id = last.sid
          /\ last.sid \in DOMAIN store
          /\ Live(last.sid).is_active
          /\ Live(last.sid).length = 0
          /\ Live(last.sid).messages = <<>>
          /\ IsNone(Live(last.sid).summary)
          /\ IsNone(Live(last.sid).ended_at)
          /\ Live(last.sid).session_id = last.sid
          /\ Live(last.sid).user_id \in DOMAIN users
          /\ Live(last.sid).user_id = Get(last.call.session).user_id

\* C28 witness: a second session was started and stored while the first one,
\* with messages in it, is in the store
C28_Witness ==
    /\ last.kind = "started"
    /\ last.call.writes = 1
    /\ \E s \in DOMAIN store \ {last.sid} : Live(s).messages # <<>>

\* the lengths a session in the store can have: 0, 2, ..., 98
OpenLengths == {n \in 0..(MAX_LENGTH - EXCHANGE_STEP) : Even(n)}

\* C29: under every interleaving and every failure, every session in the store
\* is active and has a length in {0, 2, ..., 98}.
C29_StoreHoldsOnlyOpenSessions ==
    \A s \in DOMAIN store :
       /\ Live(s).is_active
       /\ Live(s).length \in OpenLengths

\* C29 witness: a sendMessage that had loaded the session before a termination
\* deleted it has written it back: the session is in the store again, active
C29_Witness ==
    /\ last.kind = "exchanged"
    /\ last.call.pc = "saved"
    /\ last.sid \in terminated
    /\ last.sid \in DOMAIN store

\* C30: in every termination the summary is generated first, then the archive
\* write is attempted, then the session is deleted from the store: a handler
\* about to archive has its summary and has made no archive attempt, a handler
\* about to delete has its summary and has made its archive attempt (which
\* succeeded or failed), a termination that has deleted had attempted the
\* archive write before, and a handler reaches each step only from the one
\* before it.
C30_TerminationOrder ==
    /\ [](/\ \A r \in Slots :
               /\ req[r].pc = "summary"
                     => /\ IsNone(Get(req[r].session).summary)
                        /\ req[r].arch = "na"
               /\ req[r].pc = "archive"
                     => /\ ~IsNone(Get(req[r].session).summary)
                        /\ req[r].arch = "na"
               /\ req[r].pc = "delete"
                     => /\ ~IsNone(Get(req[r].session).summary)
                        /\ req[r].arch \in {"ok", "failed"}
          /\ last.call.pc \in {"deleted", "delete_failed"}
                => /\ ~IsNone(Get(last.call.session).summary)
                   /\ last.call.arch \in {"ok", "failed"}
          /\ \A s \in terminated : summarized[s] >= 1)
    /\ [][/\ \A r \in Slots :
               /\ (req'[r].pc = "archive" /\ req'[r] # req[r]) => req[r].pc = "summary"
               /\ (req'[r].pc = "delete" /\ req'[r] # req[r]) => req[r].pc = "archive"
          /\ \A s \in DOMAIN store \ DOMAIN store' :
               s \in terminated' \ terminated
                  => \E r \in Slots : /\ req[r].sid = s
                                      /\ req[r].pc = "delete"
                                      /\ req[r].arch \in {"ok", "failed"}]_vars

\* C30 witness: a termination whose archive write failed has deleted the
\* session that was in the store
C30_Witness ==
    /\ last.call.pc = "deleted"
    /\ last.call.arch = "failed"
    /\ ~IsNone(last.before)
    /\ last.sid \notin DOMAIN store
    /\ summarized[last.sid] >= 1

\* the responses of requests that are no termination: start, a refused or
\* failed sendMessage, a sendMessage that saved, a refused end
NoTerminationKinds ==
    {"no_json", "user_id_required", "quota_denied", "started",
     "not_found_or_ended", "message_required", "openai_failed", "exchanged",
     "not_found", "already_ended"}

\* C31: the archive changes only in the archive step of a termination (an end,
\* or a sendMessage whose copy reached length 100), which writes the record of
\* that session; the steps that return the response of a start, of a refused
\* or failed or non-terminating sendMessage, or of a refused end, and the
\* expiry of a key, leave every record as it was. So a session for which no
\* termination ever generated a summary has no record, in the store or out.
C31_OnlyTerminationWritesArchive ==
    /\ [](\A s \in SessionIds : summarized[s] = 0 => Archived(s) = {})
    /\ [][/\ archive' # archive
               => \E r \in Holding :
                     /\ req[r].pc = "archive"
                     /\ req'[r].arch = "ok"
                     /\ ~Get(req[r].session).is_active
                     /\ req[r].op = "message" => Get(req[r].session).length = MAX_LENGTH
                     /\ \A k \in DOMAIN archive' :
                           (k \notin DOMAIN archive \/ archive'[k] # archive[k])
                              => k[2] = req[r].sid
          /\ last'.kind \in NoTerminationKinds => archive' = archive
          /\ (last'.kind = "none" /\ DOMAIN store' # DOMAIN store) => archive' = archive]_vars

\* C31 witness: a session has left the store by expiry and has no record, while
\* the archive holds the record of another session, which was terminated
C31_Witness ==
    \E s \in issued :
       /\ s \notin DOMAIN store
       /\ s \notin terminated
       /\ summarized[s] = 0
       /\ Archived(s) = {}
       /\ DOMAIN archive # {}

\* C32 (as claimed): when the response of a start the gate approved is returned
\* (the counter update for the owner has been spawned), a session of that owner
\* is in the store under the id of that start.
C32_ApprovedStartIsPersisted ==
    (/\ last.kind = "started"
     /\ \E u \in pending : u.id = Get(last.call.session).user_id)
       => /\ last.sid \in DOMAIN store
          /\ Live(last.sid).user_id = Get(last.call.session).user_id

\* C33: the gate denies, and hands no counter update to a thread, whenever the
\* user has no record or the lookup raised; a start that was let through names
\* a user with a record; a start rejected for its missing user_id and a start
\* the gate denied leave the store, the ids handed out, the user records and
\* the counter updates under way as they were, and are answered 400 and 403.
C33_GateFailsClosed ==
    /\ [](/\ \A u \in UserInputs \ {""} :
               /\ ~userStartSession(users, u, FALSE).ret
               /\ IsNone(userStartSession(users, u, FALSE).spawn)
               /\ u \notin DOMAIN users
                     => /\ ~userStartSession(users, u, TRUE).ret
                        /\ IsNone(userStartSession(users, u, TRUE).spawn)
          /\ last.kind = "started"
                => Get(last.call.session).user_id \in DOMAIN users)
    /\ [][/\ last'.kind = "user_id_required"
               => /\ last'.code = 400
                  /\ store' = store /\ issued' = issued
                  /\ users' = users /\ pending' = pending
          /\ (last'.op = "start" /\ last'.kind = "quota_denied")
               => /\ last'.code = 403
                  /\ store' = store /\ issued' = issued
                  /\ users' = users /\ pending' = pending]_vars

\* C33 witness: a start was denied although the quota of every user record has
\* room: the user named has no record, or the lookup failed
C33_Witness ==
    /\ last.op = "start"
    /\ last.kind = "quota_denied"
    /\ \A u \in DOMAIN users : users[u].session_count < users[u].max_sessions

\* C34: a sendMessage on a stored active session whose body has no message text
\* is answered 400 in the step it arrives: no handler goes on to the model call
\* for it, and the store (so the session's messages, length and is_active), the
\* archive and the summary calls are as they were; no handler ever waits for
\* the model with an empty user message, and no stored session holds one.
C34_EmptyMessageRejected ==
    /\ [](/\ \A r \in Slots :
               req[r].pc = "llm"
                  => LET m == Get(req[r].session).messages
                     IN  m[Len(m)].role = "user" /\ m[Len(m)].content # ""
          /\ \A s \in DOMAIN store : \A i \in 1..Len(Live(s).messages) :
               Live(s).messages[i].content # "")
    /\ [][last'.kind = "message_required"
            => /\ last'.code = 400
               /\ ~IsNone(last'.before)
               /\ pickle_loads(Get(last'.before)).is_active
               /\ req' = req
               /\ store' = store
               /\ archive' = archive
               /\ summarized' = summarized]_vars

\* C34 witness: a sendMessage without text was refused on a session that has
\* exchanges in it
C34_Witness ==
    /\ last.kind = "message_required"
    /\ last.sid \in DOMAIN store
    /\ Live(last.sid).length > 0
    /\ Live(last.sid) = pickle_loads(Get(last.before))

\* the entries of a list
Entries(seq) == {seq[i] : i \in 1..Len(seq)}

\* C35 (as claimed): every task returned by assign_weekly_tasks(user, d) is due
\* not later than the end (Sunday 23:59:59) of the week of d.
C35_DueInsideTheWeek ==
    ~IsNone(assigned_on)
       => \A task \in Entries(tasks) : NotAfter(task.due_date, week_end(Get(assigned_on)))

\* two dates lie in the same Monday-to-Sunday week
SameWeek(a, b) == a.day \div 7 = b.day \div 7

\* C36: after assign_weekly_tasks(user, d), should_assign_new_tasks(user, d') is
\* false for every d' in the week of d and true for every d' in another week;
\* for a user with no current_week_start it is true on every date.
C36_AssignedOncePerWeek ==
    /\ IsNone(current_week_start)
          => \A d \in Dates : should_assign_new_tasks(current_week_start, d)
    /\ ~IsNone(assigned_on)
          => /\ ~IsNone(current_week_start)
             /\ \A d \in Dates :
                   should_assign_new_tasks(current_week_start, d)
                      = ~SameWeek(d, Get(assigned_on))

\* C36 witness: tasks were assigned on the Sunday of the second week, at noon
C36_Witness ==
    /\ ~IsNone(assigned_on)
    /\ Get(assigned_on).day = 13
    /\ Get(assigned_on).sec > 0
    /\ tasks # <<>>

\* the days left in the week of a date, the day itself counted
DaysLeftCountingToday(date) == 7 - (date.day % 7)

\* the quiz tasks of a list, in order
QuizTasks(seq) == SelectSeq(seq, LAMBDA task : task.type_of_task = "quiz")

BestOf(log) ==
    LET passed == {Get(log[i]) : i \in {j \in 1..Len(log) : ~IsNone(log[j])}}
    IN  IF passed = {} THEN None
        ELSE Some(CHOOSE m \in passed : \A x \in passed : x <= m)

\* C38 (as claimed): after any sequence of add_attempt calls, attempts is the
\* number of calls and best_score the largest score passed (None if none).
C38_AttemptsAndBestScore ==
    /\ attempts_info["attempts"] = Some(Len(attempt_log))
    /\ attempts_info["best_score"] = BestOf(attempt_log)

====
